---- MODULE Spec2Model ----
(***************************************************************************)
(* sms_service: one-time codes kept in a key-expiring store (handler       *)
(* package) and the Socket.IO connection registry with its broadcast       *)
(* (socketserver package).                                                 *)
(*                                                                         *)
(* Strings are sequences of one-character strings, so that the regular     *)
(* expressions, TrimPrefix and Sprintf are computed on the characters.     *)
(***************************************************************************)
EXTENDS Integers, Sequences, FiniteSets, Bags, TLC

None == "none"
NoStr == <<>>

\* ------------------------------------------------------------------ bounds
\* HTTP requests one behaviour of the code service receives.
MaxReqs == 3
\* HTTP requests one behaviour of the gateway receives.
GateReqs == 1
\* Transport events (handshake, upgrade, drop, job done, error) one
\* behaviour draws.
MaxEvents == 3
\* Clock ticks one behaviour takes.
MaxTicks == 2
\* HTTP requests and connection attempts one behaviour of the dispatch
\* service receives.
DispatchReqs == 2
DispatchEvents == 1

\* ----------------------------------------------------------------- strings
Digits == {"0", "1", "2", "3", "4", "5", "6", "7", "8", "9"}

DigitChar(d) ==
    CASE d = 0 -> "0" [] d = 1 -> "1" [] d = 2 -> "2" [] d = 3 -> "3"
      [] d = 4 -> "4" [] d = 5 -> "5" [] d = 6 -> "6" [] d = 7 -> "7"
      [] d = 8 -> "8" [] d = 9 -> "9"

DigitVal(c) == CHOOSE d \in 0..9 : DigitChar(d) = c

HasPrefix(s, p) == Len(s) >= Len(p) /\ SubSeq(s, 1, Len(p)) = p

TrimPrefix(s, p) == IF HasPrefix(s, p) THEN SubSeq(s, Len(p) + 1, Len(s)) ELSE s

RECURSIVE SprintfD(_)
\* fmt.Sprintf("%d", n) for n >= 0
SprintfD(n) == IF n < 10 THEN <<DigitChar(n)>>
               ELSE SprintfD(n \div 10) \o <<DigitChar(n % 10)>>

CountryPrefix == <<"+", "9", "9", "3">>

\* fmt.Sprintf("+993%s", phone)
WithCountryPrefix(phone) == CountryPrefix \o phone

\* s[k..k+7] is 6, a digit in 1..5 and six digits
LocalNumberAt(s, k) ==
    /\ Len(s) >= k + 7
    /\ s[k] = "6"
    /\ s[k + 1] \in {"1", "2", "3", "4", "5"}
    /\ \A i \in (k + 2)..(k + 7) : s[i] \in Digits

\* phonePattern without its end anchor
phonePatternOpen(s) == LocalNumberAt(s, 1)

\* phonePattern = ^[6][1-5][0-9]{6}$
phonePattern(s) == LocalNumberAt(s, 1) /\ Len(s) = 8

\* sendSMSPattern = ^(\+993)?6[1-5]\d{6}   (no end anchor)
sendSMSPattern(s) ==
    \/ HasPrefix(s, CountryPrefix) /\ LocalNumberAt(s, 5)
    \/ LocalNumberAt(s, 1)

otpTTLSeconds == 1800
otpKeyPrefix == <<"o", "t", "p", ":">>

\* rand.Int(rand.Reader, big.NewInt(90000)) returns a value below this
RandLimit == 90000
CodeBase == 10000

\* generateOTP without the 10000 it adds
generateOTPNoBase(n) == SprintfD(n)

\* generateOTP with the random source returning n
generateOTP(n) == SprintfD(n + CodeBase)

\* --------------------------------------------------------------- inputs
LocalPhone == <<"6", "1", "2", "3", "4", "5", "6", "7">>
OtherPhone == <<"6", "5", "0", "0", "0", "0", "0", "0">>
BadPhone == <<"7", "1", "2", "3", "4", "5", "6", "7">>
ShortPhone == <<"6", "1", "2", "3", "4", "5", "6">>

\* what the random source returns in the checked behaviours
RandVals == {0, RandLimit - 1}

Codes == {generateOTP(n) : n \in RandVals}
WrongPass == <<"1", "0", "0", "0">>
Passes == Codes \cup {WrongPass}
Message == <<"h", "i">>

AllowedOrigins == {"http://localhost", "http://95.85.97.202"}
Origins == {"", "http://localhost", "http://evil.example"}

ConnIds == {"c1", "c2"}

\* what the clock advances by in one step: half the time to live
TickSeconds == otpTTLSeconds \div 2

\* ---------------------------------------------------------------- state
VARIABLES
    store,      \* the Redis keys that exist: key -> [code, exp]
    now,        \* the clock, in seconds
    life,       \* history: how each key got to its present condition
    wins,       \* history: the "verified" answers since the key was last set
    reqs,       \* the handlers that run: a bag of [op, phone, arg, pc, ...]
    nreq,       \* requests received so far
    resp,       \* the last answer a handler gave, with the request it ends
    mu,         \* Manager.mu: TRUE when locked
    clients,    \* Manager.clients: id -> [id, busy]
    conns,      \* the sessions the Socket.IO server holds in namespace "/"
    cbs,        \* the callbacks the server has invoked and that still run
    nev,        \* transport events drawn so far
    attempt,    \* the last connection attempt: [n, origin, verdict], the n-th event
    last,       \* the last broadcast: [event, phone, pass, to, failed]
    quota       \* how many requests and events a behaviour may draw

vars == <<store, now, life, wins, reqs, nreq, resp, mu, clients, conns, cbs,
          nev, attempt, last, quota>>

codeVars == <<store, now, life, wins>>
gateVars == <<clients, conns, cbs, nev, attempt>>

Phones == {LocalPhone, OtherPhone, BadPhone, ShortPhone,
           WithCountryPrefix(LocalPhone), LocalPhone \o <<"x">>,
           WithCountryPrefix(ShortPhone)}

\* key := otpKeyPrefix + body.Phone
Key(phone) == otpKeyPrefix \o phone

Keys == {Key(p) : p \in Phones}

Ops == {"otp", "compare", "group_sms", "send_sms"}

\* ctx := context.Background(): a context with no deadline, never cancelled
Background == [deadline |-> None]

\* A request as it is received: nothing read, nothing sent, no answer yet.
\* calls, down and rnd are history: the calls on Redis the handler has made,
\* whether the last of them failed, and what rand.Int returned for its code.
NewReq(op, phone, arg, pc, out) ==
    [op |-> op, phone |-> phone, arg |-> arg, pc |-> pc, out |-> out,
     code |-> NoStr, emits |-> 0, fault |-> FALSE, seen |-> None,
     ctx |-> Background, calls |-> 0, down |-> FALSE, rnd |-> -1]

NoResp == NewReq(None, NoStr, NoStr, None, None)

Live(k) == k \in DOMAIN store

\* the map m with key k removed
Without(m, k) == [x \in DOMAIN m \ {k} |-> m[x]]

\* the map m with k set to v, present before or not
With(m, k, v) == [x \in DOMAIN m \cup {k} |-> IF x = k THEN v ELSE m[x]]

NoBroadcast == [event |-> None, phone |-> NoStr, pass |-> NoStr, to |-> {}, failed |-> {}]
NoAttempt == [n |-> 0, origin |-> "", verdict |-> None]

\* the bag b with one x added, with one x removed, with one x become y
Plus(b, x) == b (+) SetToBag({x})
Minus(b, x) == b (-) SetToBag({x})
Moved(b, x, y) == Plus(Minus(b, x), y)

\* ------------------------------------------------------ the Redis server
\* GET key: (value, nil), or ("", redis.Nil) when the key does not exist
RedisGet(k) == IF Live(k) THEN [val |-> store[k].code, err |-> "nil"]
               ELSE [val |-> NoStr, err |-> "redis.Nil"]

\* a call that did not reach the server, or timed out
RedisDown == [val |-> NoStr, err |-> "io"]

\* SETEX key ttl value at the present time
RedisSetEx(k, v, ttl) == With(store, k, [code |-> v, exp |-> now + ttl])

\* a DEL that removes nothing
RedisDelNothing(k) == store

\* DEL key
RedisDel(k) == Without(store, k)

\* The clock advances; Redis drops the keys whose time to live has run out.
Tick ==
    /\ now < MaxTicks * TickSeconds
    /\ now' = now + TickSeconds
    /\ store' = [k \in {x \in DOMAIN store : store[x].exp > now'} |-> store[k]]
    /\ life' = [k \in Keys |-> IF Live(k) /\ k \notin DOMAIN store'
                               THEN "expired" ELSE life[k]]
    /\ UNCHANGED <<wins, reqs, nreq, resp, mu, gateVars, last, quota>>

\* ------------------------------------------------------- the HTTP handlers
Done(r, out) == [r EXCEPT !.pc = "done", !.out = out]
Failed(r) == [r EXCEPT !.pc = "done", !.out = "error", !.fault = TRUE]

\* The handler r took a step and is now r2: it runs on, or it has answered.
Went(r, r2) ==
    IF r2.pc = "done"
    THEN reqs' = Minus(reqs, r) /\ resp' = r2
    ELSE reqs' = Moved(reqs, r, r2) /\ UNCHANGED resp

At(pc) == {r \in BagToSet(reqs) : r.pc = pc}

\* Handler r has made one more call on Redis, which answered (ok) or failed.
Called(r, ok) == [r EXCEPT !.calls = @ + 1, !.down = ~ok]

\* Handler r, if it has generated a code, did so from the value n.
Drew(r, n) == IF r.code # NoStr THEN [r EXCEPT !.rnd = n] ELSE r

\* a validation that refuses a dispatch while a code is pending for the phone
ValidatedNothingPending(op, phone) ==
    CASE op = "otp" -> phonePattern(phone)
      [] op = "compare" -> TRUE
      [] op = "group_sms" -> phonePattern(phone) /\ ~Live(otpKeyPrefix \o phone)
      [] op = "send_sms" -> sendSMSPattern(phone) /\ ~Live(otpKeyPrefix \o phone)

\* The handler binds the body and validates the phone; a request that passes
\* goes on to its first call on Redis or on the socket manager.
Validated(op, phone) ==
    CASE op = "otp" -> phonePattern(phone)
      [] op = "compare" -> TRUE
      [] op = "group_sms" -> phonePattern(phone)
      [] op = "send_sms" -> sendSMSPattern(phone)

FirstPc(op) ==
    CASE op = "otp" -> "otp_get"
      [] op = "compare" -> "cmp_get"
      [] op = "group_sms" -> "lock"
      [] op = "send_sms" -> "lock"

ArgsOf(op) ==
    CASE op = "otp" -> {NoStr}
      [] op = "compare" -> Passes
      [] op = "group_sms" -> {Message}
      [] op = "send_sms" -> {Message}

\* bound: c.ShouldBindJSON(&body) returned no error
Receive(op, phone, arg, bound) ==
    /\ nreq < quota.req
    /\ nreq' = nreq + 1
    /\ IF ~bound
       THEN /\ resp' = NewReq(op, NoStr, NoStr, "done", "bad_request")
            /\ UNCHANGED reqs
       ELSE IF Validated(op, phone)
       THEN /\ reqs' = Plus(reqs, NewReq(op, phone, arg, FirstPc(op), None))
            /\ UNCHANGED resp
       ELSE /\ resp' = NewReq(op, phone, arg, "done", "bad_request")
            /\ UNCHANGED reqs
    /\ UNCHANGED <<codeVars, mu, gateVars, last, quota>>

\* OTPCheck without the check of an existing code: every issue goes on.
OTPCheckBlind(r, got, rndOk, n) ==
    IF got.err # "nil" /\ got.err # "redis.Nil" THEN Failed(r)
    ELSE IF ~rndOk THEN [Failed(r) EXCEPT !.seen = "miss"]
    ELSE [r EXCEPT !.seen = IF got.err = "nil" THEN "hit" ELSE "miss",
                   !.code = generateOTP(n), !.pc = "lock"]

\* OTPCheck with the test of the value inverted: existing == "".
OTPCheckInverted(r, got, rndOk, n) ==
    IF got.err # "nil" /\ got.err # "redis.Nil" THEN Failed(r)
    ELSE IF got.err = "nil" /\ got.val = NoStr
         THEN [Done(r, "pending") EXCEPT !.seen = "hit"]
    ELSE IF ~rndOk THEN [Failed(r) EXCEPT !.seen = "miss"]
    ELSE [r EXCEPT !.seen = IF got.err = "nil" THEN "hit" ELSE "miss",
                   !.code = generateOTP(n), !.pc = "lock"]

\* OTPCheck of a handler that, finding a code, stores it again to renew its
\* time to live before it answers.
OTPCheckRefresh(r, got, rndOk, n) ==
    IF got.err # "nil" /\ got.err # "redis.Nil" THEN Failed(r)
    ELSE IF got.err = "nil" /\ got.val # NoStr
         THEN [r EXCEPT !.seen = "hit", !.code = got.val, !.emits = 1, !.pc = "setex"]
    ELSE IF ~rndOk THEN [Failed(r) EXCEPT !.seen = "miss"]
    ELSE [r EXCEPT !.seen = "miss", !.code = generateOTP(n), !.pc = "lock"]

\* OTPCheck of a handler that stores the code first: it goes to the SETEX
\* without the Emit.
OTPCheckPersistFirst(r, got, rndOk, n) ==
    IF got.err # "nil" /\ got.err # "redis.Nil" THEN Failed(r)
    ELSE IF got.err = "nil" /\ got.val # NoStr
         THEN [Done(r, "pending") EXCEPT !.seen = "hit"]
    ELSE IF ~rndOk THEN [Failed(r) EXCEPT !.seen = "miss"]
    ELSE [r EXCEPT !.seen = "miss", !.code = generateOTP(n), !.pc = "setex"]

\* OTP, from the GET to generateOTP: the answer of an existing code, or the
\* new code with which the handler goes on to Emit. rndOk: rand.Int gave n.
OTPCheck(r, got, rndOk, n) ==
    IF got.err # "nil" /\ got.err # "redis.Nil" THEN Failed(r)
    ELSE IF got.err = "nil" /\ got.val # NoStr
         THEN [Done(r, "pending") EXCEPT !.seen = "hit"]
    ELSE IF ~rndOk THEN [Failed(r) EXCEPT !.seen = "miss"]
    ELSE [r EXCEPT !.seen = "miss", !.code = generateOTP(n), !.pc = "lock"]

\* OTP, the GET and what follows it, the random source drawing from vals
OTPGetFrom(r, vals) ==
    /\ r.pc = "otp_get"
    /\ \E ok \in BOOLEAN, rndOk \in BOOLEAN, n \in vals :
         Went(r, Drew(OTPCheck(Called(r, ok),
                               IF ok THEN RedisGet(Key(r.phone)) ELSE RedisDown,
                               rndOk, n), n))
    /\ UNCHANGED <<codeVars, nreq, mu, gateVars, last, quota>>

OTPGet(r) == OTPGetFrom(r, RandVals)

\* OTP, the SETEX and the answer
OTPSetEx(r) ==
    /\ r.pc = "setex"
    /\ \E ok \in BOOLEAN :
         IF ok
         THEN /\ store' = RedisSetEx(Key(r.phone), r.code, otpTTLSeconds)
              /\ life' = [life EXCEPT ![Key(r.phone)] = "issued"]
              /\ wins' = [wins EXCEPT ![Key(r.phone)] = 0]
              /\ Went(r, Done(Called(r, TRUE), "success"))
         ELSE /\ Went(r, Failed(Called(r, FALSE)))
              /\ UNCHANGED <<store, life, wins>>
    /\ UNCHANGED <<now, nreq, mu, gateVars, last, quota>>

\* CompareCheck that accepts a submitted prefix of the stored code.
CompareCheckPrefix(r, got) ==
    IF got.err = "redis.Nil" THEN [Done(r, "expired") EXCEPT !.seen = "miss"]
    ELSE IF got.err # "nil" THEN Failed(r)
    ELSE IF ~HasPrefix(got.val, r.arg) THEN [Done(r, "invalid") EXCEPT !.seen = "hit"]
    ELSE [r EXCEPT !.seen = "hit", !.pc = "del"]

\* CompareCheck that answers "invalid" for a key that does not exist.
CompareCheckMissInvalid(r, got) ==
    IF got.err = "redis.Nil" THEN [Done(r, "invalid") EXCEPT !.seen = "miss"]
    ELSE IF got.err # "nil" THEN Failed(r)
    ELSE IF r.arg # got.val THEN [Done(r, "invalid") EXCEPT !.seen = "hit"]
    ELSE [r EXCEPT !.seen = "hit", !.pc = "del"]

\* CompareCheck that takes every error of the GET for a missing key.
CompareCheckErrorAsMiss(r, got) ==
    IF got.err # "nil" THEN [Done(r, "expired") EXCEPT !.seen = "miss"]
    ELSE IF r.arg # got.val THEN [Done(r, "invalid") EXCEPT !.seen = "hit"]
    ELSE [r EXCEPT !.seen = "hit", !.pc = "del"]

\* Compare, from the GET to the comparison
CompareCheck(r, got) ==
    IF got.err = "redis.Nil" THEN [Done(r, "expired") EXCEPT !.seen = "miss"]
    ELSE IF got.err # "nil" THEN Failed(r)
    ELSE IF r.arg # got.val THEN [Done(r, "invalid") EXCEPT !.seen = "hit"]
    ELSE [r EXCEPT !.seen = "hit", !.pc = "del"]

CompareGet(r) ==
    /\ r.pc = "cmp_get"
    /\ \E ok \in BOOLEAN :
         Went(r, CompareCheck(Called(r, ok),
                              IF ok THEN RedisGet(Key(r.phone)) ELSE RedisDown))
    /\ UNCHANGED <<codeVars, nreq, mu, gateVars, last, quota>>

\* Compare, the DEL and the answer
CompareDel(r) ==
    /\ r.pc = "del"
    /\ \E ok \in BOOLEAN :
         IF ok
         THEN /\ store' = RedisDel(Key(r.phone))
              /\ life' = [life EXCEPT ![Key(r.phone)] = "verified"]
              /\ wins' = [wins EXCEPT ![Key(r.phone)] = @ + 1]
              /\ Went(r, Done(Called(r, TRUE), "verified"))
         ELSE /\ Went(r, Failed(Called(r, FALSE)))
              /\ UNCHANGED <<store, life, wins>>
    /\ UNCHANGED <<now, nreq, mu, gateVars, last, quota>>

\* ---------------------------------------------------- the socket manager
\* a checkOrigin that trusts every origin
checkOriginAny(origin) == TRUE

\* checkOrigin of NewManager, on the request's Origin header
checkOrigin(origin) == origin = "" \/ origin \in AllowedOrigins

\* fmt.Sprintf("<activation text> %s", code): the text, written in ASCII here
OtpText(code) == <<"Sizin aktiwasiya kodunyz ">> \o code

\* the OTPEvent of a SendSMS that does not strip the prefix it was given
JobNoTrim(r) ==
    CASE r.op = "otp" ->
           [phone |-> WithCountryPrefix(r.phone), pass |-> OtpText(r.code)]
      [] r.op = "group_sms" ->
           [phone |-> WithCountryPrefix(r.phone), pass |-> r.arg]
      [] r.op = "send_sms" ->
           [phone |-> WithCountryPrefix(r.phone), pass |-> r.arg]

\* The OTPEvent a handler hands to Emit.
Job(r) ==
    CASE r.op = "otp" ->
           [phone |-> WithCountryPrefix(r.phone), pass |-> OtpText(r.code)]
      [] r.op = "group_sms" ->
           [phone |-> WithCountryPrefix(r.phone), pass |-> r.arg]
      [] r.op = "send_sms" ->
           [phone |-> WithCountryPrefix(TrimPrefix(r.phone, CountryPrefix)),
            pass |-> r.arg]

\* Server.BroadcastToNamespace("/", event, data): the server sends to each
\* session of the namespace; the sends in failed do not arrive.
BroadcastToNamespace(event, job, failed) ==
    [event |-> event, phone |-> job.phone, pass |-> job.pass,
     to |-> conns \ failed, failed |-> failed]

\* Emit, m.mu.Lock() and the count
EmitLock(r) ==
    /\ r.pc = "lock"
    /\ ~mu
    /\ mu' = TRUE
    /\ Went(r, [r EXCEPT !.pc = "unlock"])
    /\ UNCHANGED <<codeVars, nreq, gateVars, last, quota>>

\* an Emit that keeps the lock until it returns (defer m.mu.Unlock()): it
\* goes into the broadcast with the lock held
EmitUnlockDeferred(r) ==
    /\ r.pc = "unlock"
    /\ Went(r, [r EXCEPT !.pc = "bcast"])
    /\ UNCHANGED <<codeVars, nreq, mu, gateVars, last, quota>>

\* Emit, m.mu.Unlock()
EmitUnlock(r) ==
    /\ r.pc = "unlock"
    /\ mu' = FALSE
    /\ Went(r, [r EXCEPT !.pc = "bcast"])
    /\ UNCHANGED <<codeVars, nreq, gateVars, last, quota>>

\* an Emit that reports an error when no session is there, and a handler
\* that answers with it
AfterEmitNeedsWorker(r) ==
    IF conns = {} THEN Failed(r)
    ELSE IF r.op = "otp" THEN [r EXCEPT !.emits = @ + 1, !.pc = "setex"]
    ELSE [Done(r, "sent") EXCEPT !.emits = @ + 1]

\* The handler after Emit returned: OTP goes on to the SETEX, the two
\* dispatch handlers answer.
AfterEmit(r) ==
    IF r.op = "otp" THEN [r EXCEPT !.emits = @ + 1, !.pc = "setex"]
    ELSE [Done(r, "sent") EXCEPT !.emits = @ + 1]

\* an Emit that sends to the sessions one by one and returns at the first
\* send that fails
EmittedUntilFailure(r, failed) ==
    [BroadcastToNamespace("otp", Job(r), failed)
       EXCEPT !.to = IF failed = {} THEN conns ELSE {}]

\* What Emit hands to the server, given the sends that will fail.
Emitted(r, failed) == BroadcastToNamespace("otp", Job(r), failed)

\* Emit, the log line and the broadcast; Emit returns nothing
EmitBroadcast(r) ==
    /\ r.pc = "bcast"
    /\ \E failed \in SUBSET conns : last' = Emitted(r, failed)
    /\ Went(r, AfterEmit(r))
    /\ UNCHANGED <<codeVars, nreq, mu, gateVars, quota>>

\* ------------------------------------------------------- the transport
Cb(kind, id, pc) == [kind |-> kind, id |-> id, pc |-> pc]

Running(cb) == BagIn(cb, cbs)

\* A connection attempt: the transports ask checkOrigin; an allowed attempt
\* becomes a session and the server calls OnConnect for it.
Handshake(id, origin) ==
    /\ nev < quota.ev
    /\ id \notin conns
    /\ nev' = nev + 1
    /\ IF checkOrigin(origin)
       THEN /\ attempt' = [n |-> nev + 1, origin |-> origin, verdict |-> "allow"]
            /\ conns' = conns \cup {id}
            /\ cbs' = Plus(cbs, Cb("connect", id, "lock"))
       ELSE /\ attempt' = [n |-> nev + 1, origin |-> origin, verdict |-> "deny"]
            /\ UNCHANGED <<conns, cbs>>
    /\ UNCHANGED <<codeVars, reqs, nreq, resp, mu, clients, last, quota>>

\* The polling session is upgraded to a websocket: the server reports the
\* connect of the same id once more.
Upgrade(id) ==
    /\ nev < quota.ev
    /\ id \in conns
    /\ nev' = nev + 1
    /\ cbs' = Plus(cbs, Cb("connect", id, "lock"))
    /\ UNCHANGED <<codeVars, reqs, nreq, resp, mu, clients, conns, attempt, last, quota>>

\* The session ends (close, timeout, transport error): OnDisconnect is called.
Drop(id) ==
    /\ nev < quota.ev
    /\ id \in conns
    /\ nev' = nev + 1
    /\ conns' = conns \ {id}
    /\ cbs' = Plus(cbs, Cb("disconnect", id, "lock"))
    /\ UNCHANGED <<codeVars, reqs, nreq, resp, mu, clients, attempt, last, quota>>

\* The worker sends "sended".
JobDone(id) ==
    /\ nev < quota.ev
    /\ id \in conns
    /\ nev' = nev + 1
    /\ cbs' = Plus(cbs, Cb("sended", id, "lock"))
    /\ UNCHANGED <<codeVars, reqs, nreq, resp, mu, clients, conns, attempt, last, quota>>

\* The session reports an error.
TransportError(id) ==
    /\ nev < quota.ev
    /\ id \in conns
    /\ nev' = nev + 1
    /\ cbs' = Plus(cbs, Cb("error", id, "log"))
    /\ UNCHANGED <<codeVars, reqs, nreq, resp, mu, clients, conns, attempt, last, quota>>

\* ------------------------------------------------------- the callbacks
\* a registration that removes the entry it finds
RegisterToggle(m, id) ==
    IF id \in DOMAIN m THEN Without(m, id) ELSE With(m, id, [id |-> id, busy |-> FALSE])

\* a registration that enters the client as busy
RegisterBusy(m, id) == With(m, id, [id |-> id, busy |-> TRUE])

\* OnConnect: m.clients[s.ID()] = &client{id, busy: false}
Register(m, id) == With(m, id, [id |-> id, busy |-> FALSE])

\* a disconnect that empties the map
UnregisterAll(m, id) == << >>

\* OnDisconnect: delete(m.clients, s.ID())
Unregister(m, id) == Without(m, id)

\* a "sended" that writes the entry whether it is there or not
MarkIdleInsert(m, id) == With(m, id, [id |-> id, busy |-> FALSE])

\* "sended": c, ok := m.clients[s.ID()]; if ok { c.busy = false }
MarkIdle(m, id) == IF id \in DOMAIN m THEN [m EXCEPT ![id].busy = FALSE] ELSE m

\* A callback from m.mu.Lock() to the statement before m.mu.Unlock().
Locked(cb, m) ==
    /\ Running(cb)
    /\ cb.pc = "lock"
    /\ ~mu
    /\ mu' = TRUE
    /\ clients' = m
    /\ cbs' = Moved(cbs, cb, [cb EXCEPT !.pc = "unlock"])
    /\ UNCHANGED <<codeVars, reqs, nreq, resp, conns, nev, attempt, last, quota>>

OnConnect(id) == Locked(Cb("connect", id, "lock"), Register(clients, id))

OnDisconnect(id) == Locked(Cb("disconnect", id, "lock"), Unregister(clients, id))

OnSended(id) == Locked(Cb("sended", id, "lock"), MarkIdle(clients, id))

\* m.mu.Unlock() of a callback
Unlock(cb) ==
    /\ Running(cb)
    /\ cb.pc = "unlock"
    /\ mu' = FALSE
    /\ cbs' = Moved(cbs, cb, [cb EXCEPT !.pc = "log"])
    /\ UNCHANGED <<codeVars, reqs, nreq, resp, clients, conns, nev, attempt, last, quota>>

\* an OnError that takes the error for the end of the session and removes
\* the client
LogErrorUnregisters(cb) ==
    /\ Running(cb)
    /\ cb.pc = "log"
    /\ cbs' = Minus(cbs, cb)
    /\ clients' = IF cb.kind = "error" THEN Without(clients, cb.id) ELSE clients
    /\ UNCHANGED <<codeVars, reqs, nreq, resp, mu, conns, nev, attempt, last, quota>>

\* The log line that ends a callback; OnError is this line alone.
Log(cb) ==
    /\ Running(cb)
    /\ cb.pc = "log"
    /\ cbs' = Minus(cbs, cb)
    /\ UNCHANGED <<codeVars, reqs, nreq, resp, mu, clients, conns, nev, attempt, last, quota>>

LockingKinds == {"connect", "disconnect", "sended"}
CbKinds == LockingKinds \cup {"error"}

\* ------------------------------------------------------ specifications
InitWith(q) ==
    /\ store = << >>
    /\ now = 0
    /\ life = [k \in Keys |-> "never"]
    /\ wins = [k \in Keys |-> 0]
    /\ reqs = EmptyBag
    /\ nreq = 0
    /\ resp = NoResp
    /\ mu = FALSE
    /\ clients = << >>
    /\ conns = {}
    /\ cbs = EmptyBag
    /\ nev = 0
    /\ attempt = NoAttempt
    /\ last = NoBroadcast
    /\ quota = q

\* The code service: the OTP and Compare handlers against Redis and the clock.
CodePhones == {LocalPhone, OtherPhone, BadPhone}

NextCode ==
    \/ \E phone \in CodePhones, bound \in BOOLEAN : Receive("otp", phone, NoStr, bound)
    \/ \E arg \in Passes, bound \in BOOLEAN : Receive("compare", LocalPhone, arg, bound)
    \/ \E r \in At("otp_get") : OTPGet(r)
    \/ \E r \in At("setex") : OTPSetEx(r)
    \/ \E r \in At("cmp_get") : CompareGet(r)
    \/ \E r \in At("del") : CompareDel(r)
    \/ \E r \in At("lock") : EmitLock(r)
    \/ \E r \in At("unlock") : EmitUnlock(r)
    \/ \E r \in At("bcast") : EmitBroadcast(r)
    \/ Tick

\* The gateway: the transport, the callbacks on the registry, and Emit
\* called by a dispatch handler.
NextGate ==
    \/ \E bound \in BOOLEAN : Receive("group_sms", LocalPhone, Message, bound)
    \/ \E r \in At("lock") : EmitLock(r)
    \/ \E r \in At("unlock") : EmitUnlock(r)
    \/ \E r \in At("bcast") : EmitBroadcast(r)
    \/ \E id \in ConnIds, origin \in Origins : Handshake(id, origin)
    \/ \E id \in ConnIds : Upgrade(id)
    \/ \E id \in ConnIds : Drop(id)
    \/ \E id \in ConnIds : JobDone(id)
    \/ \E id \in ConnIds : TransportError(id)
    \/ \E id \in ConnIds : OnConnect(id)
    \/ \E id \in ConnIds : OnDisconnect(id)
    \/ \E id \in ConnIds : OnSended(id)
    \/ \E kind \in LockingKinds, id \in ConnIds : Unlock(Cb(kind, id, "unlock"))
    \/ \E kind \in CbKinds, id \in ConnIds : Log(Cb(kind, id, "log"))

\* The dispatch service: the three handlers that call Emit, on every phone,
\* with the workers that connect.
\* the worker that connects while the dispatch service runs
DispatchIds == {"c1"}

DispatchPhones == {LocalPhone, ShortPhone, WithCountryPrefix(LocalPhone),
                   LocalPhone \o <<"x">>}

NextDispatch ==
    \/ \E phone \in DispatchPhones, bound \in BOOLEAN :
         Receive("otp", phone, NoStr, bound)
    \/ \E phone \in DispatchPhones, bound \in BOOLEAN :
         Receive("group_sms", phone, Message, bound)
    \/ \E phone \in DispatchPhones, bound \in BOOLEAN :
         Receive("send_sms", phone, Message, bound)
    \/ \E r \in At("otp_get") : OTPGet(r)
    \/ \E r \in At("setex") : OTPSetEx(r)
    \/ \E r \in At("lock") : EmitLock(r)
    \/ \E r \in At("unlock") : EmitUnlock(r)
    \/ \E r \in At("bcast") : EmitBroadcast(r)
    \/ \E id \in DispatchIds, origin \in AllowedOrigins : Handshake(id, origin)
    \/ \E id \in DispatchIds : OnConnect(id)
    \/ \E id \in DispatchIds : Unlock(Cb("connect", id, "unlock"))
    \/ \E id \in DispatchIds : Log(Cb("connect", id, "log"))

\* Code generation: one issue, the random source returning any value it
\* can. generateOTP keeps nothing from one call to the next, so one call in
\* a behaviour, over the whole range, covers it.
NextGen ==
    \/ \E bound \in BOOLEAN : Receive("otp", LocalPhone, NoStr, bound)
    \/ \E r \in At("otp_get") : OTPGetFrom(r, 0..(RandLimit - 1))
    \/ \E r \in At("lock") : EmitLock(r)
    \/ \E r \in At("unlock") : EmitUnlock(r)
    \/ \E r \in At("bcast") : EmitBroadcast(r)
    \/ \E r \in At("setex") : OTPSetEx(r)

OneIssue == [req |-> 1, ev |-> 0]

InitGen == InitWith(OneIssue)

Init == InitWith([req |-> MaxReqs, ev |-> MaxEvents])

InitDispatch == InitWith([req |-> DispatchReqs, ev |-> DispatchEvents])

InitGate == InitWith([req |-> GateReqs, ev |-> MaxEvents])

Next == NextCode \/ NextGate \/ NextDispatch \/ NextGen

Spec == Init /\ [][Next]_vars

SpecCode == Init /\ [][NextCode]_vars

SpecGate == InitGate /\ [][NextGate]_vars

SpecDispatch == InitDispatch /\ [][NextDispatch]_vars

SpecGen == InitGen /\ [][NextGen]_vars

\* ------------------------------------------------------------ properties
\* The step is one of handler r, of callback cb: each step of a handler or
\* of a callback changes its record.
StepOf(r) == CopiesIn(r, reqs') < CopiesIn(r, reqs)
CbStep(cb) == CopiesIn(cb, cbs') < CopiesIn(cb, cbs)

\* Handler r gave its answer in this step: resp' is that answer.
Answered(r) == StepOf(r) /\ reqs' = Minus(reqs, r)

\* The step met no failure of Redis or of the random source.
NoFault(r) == ~(Answered(r) /\ resp'.fault)

\* The condition C1 puts on every step.
C1_IssueThenPending_Step ==
    /\ \A r \in At("otp_get") :
        StepOf(r) /\ NoFault(r) =>
          IF life[Key(r.phone)] = "issued"
          THEN /\ Answered(r)
               /\ resp'.out = "pending"
               /\ resp'.emits = 0
               /\ last' = last
               /\ store' = store
          ELSE ~Answered(r) /\ r.emits = 0
    /\ \A r \in At("bcast") :
        StepOf(r) /\ r.op = "otp" =>
          /\ r.emits = 0
          /\ last'.phone = CountryPrefix \o r.phone
          /\ ~Answered(r)
    /\ \A r \in At("setex") :
        StepOf(r) /\ NoFault(r) =>
          /\ resp'.out = "success"
          /\ resp'.emits = 1
          /\ life'[Key(r.phone)] = "issued"

\* C1: an issue for a valid phone with no entry, Redis and the random source
\* working, goes on to broadcast once, with the phone "+993" + P, and then
\* stores the code and answers success; an issue that starts while the entry
\* of an earlier successful issue is there (no expiry, no verification in
\* between) answers "already pending" and broadcasts nothing.
C1_IssueThenPending == [][C1_IssueThenPending_Step]_vars

C1_Witness ==
    /\ nreq = 2
    /\ resp.op = "otp"
    /\ resp.phone = LocalPhone
    /\ resp.out = "pending"
    /\ life[Key(LocalPhone)] = "issued"
    /\ last.phone = WithCountryPrefix(LocalPhone)

\* The condition C2 puts on every step.
C2_VerifyThenExpired_Step ==
    /\ \A r \in At("cmp_get") :
        StepOf(r) /\ NoFault(r) =>
          /\ Live(Key(r.phone)) /\ store[Key(r.phone)].code = r.arg
               => ~Answered(r)
          /\ life[Key(r.phone)] = "verified"
               => Answered(r) /\ resp'.out = "expired"
    /\ \A r \in At("del") :
        StepOf(r) /\ NoFault(r) =>
          /\ resp'.out = "verified"
          /\ Key(r.phone) \notin DOMAIN store'
    /\ \A k \in Keys : life'[k] = "verified" => k \notin DOMAIN store'

\* C2: a verification that reads the stored code it submits goes on to the
\* DEL, answers "verified" and leaves no entry; after a "verified" answer and
\* until the next issue there is no entry, and a verification answers
\* "expired". (Redis working.)
C2_VerifyThenExpired == [][C2_VerifyThenExpired_Step]_vars

C2_Witness ==
    /\ nreq = 3
    /\ resp.op = "compare"
    /\ resp.arg \in Codes
    /\ resp.out = "expired"
    /\ life[Key(resp.phone)] = "verified"
    /\ wins[Key(resp.phone)] = 1

\* The condition C3 puts on every step.
C3_WrongGuessKeepsEntry_Step ==
    \A r \in At("cmp_get") :
      /\ StepOf(r)
      /\ NoFault(r)
      /\ Live(Key(r.phone))
      /\ store[Key(r.phone)].code # r.arg
      => /\ Answered(r)
         /\ resp'.out = "invalid"
         /\ store' = store
         /\ life' = life

\* C3: a verification that submits anything but the stored code answers
\* "invalid" and leaves the store as it is: the code, its expiry, every
\* other key. (Redis working.)
C3_WrongGuessKeepsEntry == [][C3_WrongGuessKeepsEntry_Step]_vars

C3_Witness ==
    /\ resp.op = "compare"
    /\ resp.out = "invalid"
    /\ Live(Key(resp.phone))
    /\ resp.arg # store[Key(resp.phone)].code
    /\ \E r \in At("del") : r.phone = resp.phone

\* C4: a code is accepted at most once: between two writes of a key at most
\* one verification answers "verified".
C4_AcceptedOnce == \A k \in Keys : wins[k] <= 1

\* The condition the claimed C5 puts on every step.
C5_NeverReplaced_Step ==
    \A k \in DOMAIN store \cap DOMAIN store' : store'[k].code = store[k].code

\* C5 as claimed: while a key exists, no step replaces its code.
C5_NeverReplaced == [][C5_NeverReplaced_Step]_vars

\* The condition the amended C5 puts on every step.
C5_RejectedNotOverwritten_Step ==
    /\ \A r \in At("otp_get") :
        StepOf(r) /\ NoFault(r) /\ Live(Key(r.phone)) =>
          Answered(r) /\ resp'.out = "pending" /\ store' = store
    /\ \A k \in DOMAIN store \cap DOMAIN store' :
        store'[k] # store[k] =>
          \E r \in At("setex") :
            /\ StepOf(r)
            /\ Key(r.phone) = k
            /\ r.seen = "miss"
            /\ store'[k].code = r.code

\* C5 as amended: an issue that reads an entry answers "already pending" and
\* writes nothing; an entry is written over only by the SETEX of an issue
\* that read the key when it did not exist.
C5_RejectedNotOverwritten == [][C5_RejectedNotOverwritten_Step]_vars

\* An issue that read no entry is about to write over the entry another
\* issue has stored since.
C5_Witness ==
    \E r \in At("setex") :
      /\ Live(Key(r.phone))
      /\ store[Key(r.phone)].code # r.code
      /\ r.seen = "miss"

\* The condition C6 puts on every step.
C6_RegisterIdempotent_Step ==
    \A id \in ConnIds :
      CbStep(Cb("connect", id, "lock")) =>
        /\ Cardinality(DOMAIN clients') =
             Cardinality(DOMAIN clients) + (IF id \in DOMAIN clients THEN 0 ELSE 1)
        /\ DOMAIN clients' = DOMAIN clients \cup {id}
        /\ clients'[id] = [id |-> id, busy |-> FALSE]
        /\ \A o \in DOMAIN clients \ {id} : clients'[o] = clients[o]

\* C6: the connect callback of an id that is registered leaves the count as
\* it is and one entry for the id, with busy = false; the connect callback of
\* a new id adds one entry; no other entry changes.
C6_RegisterIdempotent == [][C6_RegisterIdempotent_Step]_vars

\* Two connect callbacks of one id have both written the map.
C6_Witness ==
    /\ Running(Cb("connect", "c1", "unlock"))
    /\ Running(Cb("connect", "c1", "log"))
    /\ Cardinality(DOMAIN clients) = 1
    /\ clients["c1"].busy = FALSE

\* The condition C7 puts on every step.
C7_UnregisterFrame_Step ==
    \A id \in ConnIds :
      CbStep(Cb("disconnect", id, "lock")) =>
        /\ id \notin DOMAIN clients => clients' = clients
        /\ DOMAIN clients' = DOMAIN clients \ {id}
        /\ \A o \in DOMAIN clients' : clients'[o] = clients[o]
        /\ Running(Cb("disconnect", id, "unlock"))'

\* C7: the disconnect callback of an id that is not registered changes
\* nothing and goes on to its end; the disconnect callback of a registered id
\* removes that entry and no other.
C7_UnregisterFrame == [][C7_UnregisterFrame_Step]_vars

\* The disconnect callback of c1 has run before its connect callback, with
\* c2 registered.
C7_Witness ==
    /\ Running(Cb("disconnect", "c1", "unlock"))
    /\ Running(Cb("connect", "c1", "lock"))
    /\ DOMAIN clients = {"c2"}

\* The condition C8 puts on every step.
C8_MarkIdleFrame_Step ==
    \A id \in ConnIds :
      CbStep(Cb("sended", id, "lock")) =>
        /\ DOMAIN clients' = DOMAIN clients
        /\ id \in DOMAIN clients => clients'[id].busy = FALSE
        /\ id \notin DOMAIN clients => clients' = clients
        /\ \A o \in DOMAIN clients \ {id} : clients'[o] = clients[o]
        /\ Running(Cb("sended", id, "unlock"))'

\* C8: the "sended" callback sets busy = false on the entry of its id when
\* there is one and changes nothing when there is none; it adds no entry,
\* removes none, changes no other entry, and goes on to its end.
C8_MarkIdleFrame == [][C8_MarkIdleFrame_Step]_vars

\* The "sended" callback of c1 has run after the disconnect callback of c1
\* removed the entry.
C8_Witness ==
    /\ Running(Cb("sended", "c1", "unlock"))
    /\ Running(Cb("disconnect", "c1", "log"))
    /\ "c1" \notin DOMAIN clients

\* The condition C9 puts on every step.
C9_OriginGate_Step ==
    attempt'.n # attempt.n =>
      /\ attempt'.verdict = "allow" <=>
           (attempt'.origin = "" \/ attempt'.origin \in AllowedOrigins)
      /\ attempt'.verdict = "deny" =>
           UNCHANGED <<clients, conns, cbs, mu>>
      /\ attempt'.verdict = "allow" =>
           \E id \in conns' \ conns : CopiesIn(Cb("connect", id, "lock"), cbs') >
                                        CopiesIn(Cb("connect", id, "lock"), cbs)

C10_BroadcastAll_Step ==
    \A r \in At("bcast") :
      StepOf(r) =>
        /\ (DOMAIN clients \cap conns) \ last'.failed \subseteq last'.to
        /\ last'.to \cap last'.failed = {}
        /\ last'.phone = Job(r).phone /\ last'.pass = Job(r).pass
        /\ Answered(r) => resp'.out = "sent" /\ ~resp'.fault
        /\ UNCHANGED <<clients, conns, cbs>>

C11_BroadcastToNobody_Step ==
    /\ \A r \in At("bcast") :
        StepOf(r) /\ conns = {} /\ Cardinality(DOMAIN clients) = 0 =>
          /\ last'.event = "otp"
          /\ last'.to = {}
          /\ last'.failed = {}
          /\ UNCHANGED <<clients, conns, cbs, mu, store>>
          /\ IF r.op = "otp"
             THEN ~Answered(r) /\ (\E r2 \in At("setex")' : r2.phone = r.phone)
             ELSE Answered(r) /\ resp'.out = "sent" /\ ~resp'.fault
    /\ \A r \in At("setex") :
        StepOf(r) /\ NoFault(r) => resp'.out = "success"

\* C11: with no session and no registry entry, the broadcast of Emit reaches
\* nobody, changes neither the registry nor the store, and Emit returns: a
\* dispatch handler answers "sent", the issue handler goes on to its SETEX
\* and, Redis working, answers success.
C11_BroadcastToNobody == [][C11_BroadcastToNobody_Step]_vars

\* No worker has ever tried to connect; an issue has stored its code and a
\* dispatch has answered "sent", both broadcasts reaching nobody.
C11_Witness ==
    /\ nev = 0
    /\ life[Key(LocalPhone)] = "issued"
    /\ resp.op = "send_sms"
    /\ resp.out = "sent"
    /\ last.event = "otp"
    /\ last.to = {}
    /\ DOMAIN clients = {}

\* A local number as the interface describes it: eight characters, "6", a
\* digit from 1 to 5, six digits.
LocalShape(s) ==
    /\ Len(s) = 8
    /\ s[1] = "6"
    /\ s[2] \in {"1", "2", "3", "4", "5"}
    /\ \A i \in 3..8 : s[i] \in Digits

\* The condition C12 puts on every step.
C12_InvalidPhoneNoEffect_Step ==
    /\ \A r \in BagToSet(reqs') : r.op = "otp" => LocalShape(r.phone)
    /\ nreq' # nreq /\ reqs' = reqs =>
          /\ resp'.out = "bad_request"
          /\ resp'.calls = 0
          /\ resp'.code = NoStr
          /\ resp'.emits = 0
          /\ UNCHANGED <<store, life, wins, last, mu, clients, conns, cbs>>

\* C12: the issue handler runs on only for a phone of the local shape; a
\* request with any other phone is answered "bad request" in the step that
\* receives it, with no call on Redis, no code, no broadcast, and store,
\* registry and sessions left as they are.
C12_InvalidPhoneNoEffect == [][C12_InvalidPhoneNoEffect_Step]_vars

\* An issue for a local number followed by one more character was rejected;
\* nothing was stored or broadcast.
C12_Witness ==
    /\ resp.op = "otp"
    /\ resp.phone = LocalPhone \o <<"x">>
    /\ resp.out = "bad_request"
    /\ store = << >>
    /\ last = NoBroadcast
    /\ reqs = EmptyBag

\* A local number behind the country prefix, and nothing else.
PrefixedShape(s) ==
    /\ Len(s) = Len(CountryPrefix) + 8
    /\ SubSeq(s, 1, Len(CountryPrefix)) = CountryPrefix
    /\ LocalShape(SubSeq(s, Len(CountryPrefix) + 1, Len(s)))

\* The condition C13 puts on every step.
C13_MalformedRejected_Step ==
    \A r \in At("bcast") :
      StepOf(r) =>
        /\ r.op = "group_sms" => LocalShape(r.phone)
        /\ r.op = "send_sms" => LocalShape(r.phone) \/ PrefixedShape(r.phone)

\* C13: a dispatch handler broadcasts only for a well-formed phone: the
\* local-format handler for a local number, the prefix-tolerant handler for
\* a local number with or without "+993" in front and nothing behind it.
C13_MalformedRejected == [][C13_MalformedRejected_Step]_vars

\* The condition C14 puts on every step.
C14_PrefixNormalized_Step ==
    \A r \in At("bcast") :
      StepOf(r) /\ r.op \in {"group_sms", "send_sms"} =>
        /\ LocalShape(r.phone) =>
             /\ last'.phone = CountryPrefix \o r.phone
             /\ PrefixedShape(last'.phone)
        /\ r.op = "send_sms" /\ PrefixedShape(r.phone) => last'.phone = r.phone
        /\ last'.pass = r.arg

\* C14: for a local number L, the prefix-tolerant dispatch of L and of
\* "+993" + L and the local-format dispatch of L all broadcast the phone
\* "+993" + L: the prefix once, the number whole.
C14_PrefixNormalized == [][C14_PrefixNormalized_Step]_vars

\* The prefix-tolerant dispatch of "+993" + L has broadcast "+993" + L and
\* answered, and a dispatch of L is about to broadcast.
C14_Witness ==
    /\ resp.op = "send_sms"
    /\ resp.phone = WithCountryPrefix(LocalPhone)
    /\ resp.out = "sent"
    /\ last.phone = WithCountryPrefix(LocalPhone)
    /\ \E r \in At("bcast") : r.op = "send_sms" /\ r.phone = LocalPhone

RECURSIVE Atoi(_)
\* the number a string of digits writes
Atoi(s) == IF s = <<>> THEN 0
           ELSE 10 * Atoi(SubSeq(s, 1, Len(s) - 1)) + DigitVal(s[Len(s)])

\* c is five digits, the first not "0", and writes n + 10000
FiveDigitsOf(c, n) ==
    /\ Len(c) = 5
    /\ \A i \in 1..5 : c[i] \in Digits
    /\ c[1] # "0"
    /\ n \in 0..89999
    /\ Atoi(c) = n + 10000
    /\ Atoi(c) \in 10000..99999

\* C15: every code a handler has generated, answered with or stored is five
\* decimal digits, the first not "0", and writes n + 10000 for the value n
\* in 0..89999 the random source returned: a number from 10000 to 99999.
C15_CodeRange ==
    /\ \A r \in BagToSet(reqs) \cup {resp} :
         r.code # NoStr => FiveDigitsOf(r.code, r.rnd)
    /\ \A k \in DOMAIN store :
         \E n \in {Atoi(store[k].code) - 10000} : FiveDigitsOf(store[k].code, n)

\* The random source returned its largest value, 89999, and the code 99999
\* was stored.
C15_Witness ==
    /\ resp.out = "success"
    /\ resp.rnd = 89999
    /\ Live(Key(LocalPhone))
    /\ store[Key(LocalPhone)].code = <<"9", "9", "9", "9", "9">>

\* The random source returned its least value, 0, and the code 10000 was
\* stored.
C15_WitnessLeast ==
    /\ resp.out = "success"
    /\ resp.rnd = 0
    /\ Live(Key(LocalPhone))
    /\ store[Key(LocalPhone)].code = <<"1", "0", "0", "0", "0">>

\* The condition C16 puts on every step.
C16_BroadcastBeforePersist_Step ==
    /\ \A r \in At("bcast") :
        StepOf(r) /\ r.op = "otp" =>
          /\ r.calls = 1
          /\ last'.pass = OtpText(r.code)
          /\ store' = store
          /\ ~Answered(r)
    /\ \A r \in At("setex") :
        StepOf(r) =>
          /\ r.emits = 1
          /\ Answered(r)
          /\ last' = last
          /\ resp'.down =>
                /\ resp'.out = "error"
                /\ resp'.fault
                /\ store' = store
                /\ ~Live(Key(r.phone)) => Key(r.phone) \notin DOMAIN store'
    /\ \A k \in DOMAIN store' :
        k \notin DOMAIN store \/ store'[k] # store[k] =>
          \E r \in At("setex") :
            StepOf(r) /\ Key(r.phone) = k /\ r.emits = 1 /\ store'[k].code = r.code

\* C16: the issue handler broadcasts its code before it writes it: at the
\* broadcast it has made the GET alone, every write of a key is the SETEX of
\* a handler that has broadcast that code, and a SETEX that fails answers
\* with an error, writes nothing and leaves the broadcast as it was sent.
C16_BroadcastBeforePersist == [][C16_BroadcastBeforePersist_Step]_vars

\* An issue broadcast its code, its SETEX failed, it answered with an error,
\* and the phone has no entry.
C16_Witness ==
    /\ resp.op = "otp"
    /\ resp.out = "error"
    /\ resp.emits = 1
    /\ resp.calls = 2
    /\ resp.down
    /\ ~Live(Key(resp.phone))
    /\ last.phone = WithCountryPrefix(resp.phone)
    /\ last.pass = OtpText(resp.code)

\* The condition C17 puts on every step.
C17_StoreFailureSurfaced_Step ==
    /\ \A r \in BagToSet(reqs') : ~r.down
    /\ \A r \in At("otp_get") \cup At("cmp_get") :
        Answered(r) /\ resp'.down =>
          /\ resp'.out = "error"
          /\ resp'.calls = 1
          /\ resp'.code = NoStr
          /\ resp'.emits = 0
          /\ UNCHANGED <<store, life, wins, last>>
    /\ \A r \in At("setex") \cup At("del") :
        Answered(r) /\ resp'.down =>
          /\ resp'.out = "error"
          /\ resp'.calls = 2
          /\ UNCHANGED <<store, life, wins, last>>
    /\ \A r \in BagToSet(reqs) :
        StepOf(r) /\ r.pc \in {"otp_get", "cmp_get", "setex", "del"} =>
          \A r2 \in BagToSet(reqs') \ BagToSet(reqs) : r2.calls = r.calls + 1

\* C17: a call on Redis that fails (the GET with an error other than
\* redis.Nil, the SETEX, the DEL) ends its handler in that step with the
\* server error, which is none of "pending", "expired", "invalid": a failed
\* GET after one call, with no code generated, nothing broadcast, nothing
\* written or deleted; no handler runs on after a failed call, and no step
\* makes a call twice.
C17_StoreFailureSurfaced == [][C17_StoreFailureSurfaced_Step]_vars

\* A verification with the stored code met a failing GET: it answered with
\* the server error after one call, and the entry is still there.
C17_Witness ==
    /\ resp.op = "compare"
    /\ resp.out = "error"
    /\ resp.down
    /\ resp.calls = 1
    /\ Live(Key(resp.phone))
    /\ store[Key(resp.phone)].code = resp.arg

\* The positions at which a handler waits for Redis to answer.
StoreCallPcs == {"otp_get", "setex", "cmp_get", "del"}

\* C18: every call on Redis is made under a context with a deadline, so that
\* a call Redis never answers ends and its handler answers "store
\* unavailable".
C18_BoundedStoreCalls ==
    \A r \in BagToSet(reqs) : r.pc \in StoreCallPcs => r.ctx.deadline # None

\* The threads between m.mu.Lock() and m.mu.Unlock(): handlers in Emit and
\* callbacks.
LockHolders ==
    BagCardinality([r \in At("unlock") |-> reqs[r]])
      + BagCardinality([cb \in {c \in BagToSet(cbs) : c.pc = "unlock"} |-> cbs[cb]])

\* C19: at most one thread is between Lock and Unlock, and the lock is held
\* exactly while one is: a handler in its broadcast and a callback at its
\* log line do not hold it, so neither keeps a callback or another Emit from
\* taking it.
C19_LockDiscipline ==
    /\ LockHolders <= 1
    /\ mu <=> LockHolders = 1

\* A callback holds the lock while a handler is in its broadcast and another
\* callback is at its log line.
C19_Witness ==
    /\ mu
    /\ At("bcast") # {}
    /\ \E id \in ConnIds, kind \in LockingKinds : Running(Cb(kind, id, "unlock"))
    /\ \E id \in ConnIds, kind \in CbKinds : Running(Cb(kind, id, "log"))

\* C20: an id whose session is gone and whose connect and disconnect
\* callbacks have all done their work on the map has no entry.
C20_DestroyedOnDisconnect ==
    \A id \in ConnIds :
      /\ id \notin conns
      /\ \A kind \in {"connect", "disconnect"} : ~Running(Cb(kind, id, "lock"))
      => id \notin DOMAIN clients

\* C21: every entry of the registry has busy = false, whatever connect,
\* disconnect, "sended", error and broadcast events have happened.
C21_NeverBusy == \A id \in DOMAIN clients : clients[id].busy = FALSE

\* Two workers are registered, a broadcast has reached one of them at
\* least, and a "sended" callback has gone through the map.
C21_Witness ==
    /\ DOMAIN clients = {"c1", "c2"}
    /\ last.event = "otp"
    /\ last.to # {}
    /\ \E id \in ConnIds : Running(Cb("sended", id, "log"))

\* The condition C22 puts on every step.
C22_ErrorIsolated_Step ==
    \A id \in ConnIds :
      /\ CopiesIn(Cb("error", id, "log"), cbs') > CopiesIn(Cb("error", id, "log"), cbs)
           => /\ UNCHANGED <<clients, conns, mu, last, reqs>>
              /\ cbs' = Plus(cbs, Cb("error", id, "log"))
      /\ CbStep(Cb("error", id, "log"))
           => /\ UNCHANGED <<clients, conns, mu, last, reqs>>
              /\ cbs' = Minus(cbs, Cb("error", id, "log"))

\* C22: an error of a session calls OnError, which logs and ends: neither
\* the event nor the callback changes the registry, the sessions, the lock,
\* a handler, or any other callback, so the connection stays registered and
\* every later event finds the gateway as it would without the error.
C22_ErrorIsolated == [][C22_ErrorIsolated_Step]_vars

\* c1 reported an error as the second event and is still registered; the
\* third event was the handshake of c2, which is registered too.
C22_Witness ==
    /\ Running(Cb("error", "c1", "log"))
    /\ attempt.n = 3
    /\ attempt.verdict = "allow"
    /\ DOMAIN clients = {"c1", "c2"}
    /\ conns = {"c1", "c2"}

DispatchOps == {"group_sms", "send_sms"}

\* The condition C23 puts on every step.
C23_DispatchFrame_Step ==
    /\ \A r \in BagToSet(reqs) :
        StepOf(r) /\ r.op \in DispatchOps =>
          /\ UNCHANGED <<store, life, wins, clients, conns, cbs>>
          /\ r.calls = 0
          /\ IF r.pc = "bcast"
             THEN /\ r.emits = 0
                  /\ Answered(r)
                  /\ resp'.out = "sent"
                  /\ resp'.emits = 1
                  /\ resp'.calls = 0
                  /\ last'.event = "otp"
                  /\ last'.pass = r.arg
             ELSE ~Answered(r) /\ last' = last
    /\ nreq' # nreq /\ reqs' = reqs /\ resp'.op = "group_sms" =>
          ~LocalShape(resp'.phone)
    /\ nreq' # nreq /\ reqs' = reqs /\ resp'.op = "send_sms" =>
          ~(LocalShape(resp'.phone) \/ PrefixedShape(resp'.phone))

\* C23: a dispatch for a well-formed phone is never refused, whatever the
\* store and the registry hold; its handler makes no call on Redis, changes
\* neither the store nor the registry, broadcasts once, in its last step,
\* and answers "sent".
C23_DispatchFrame == [][C23_DispatchFrame_Step]_vars

\* A dispatch for a phone whose code is pending was broadcast to the
\* registered worker and answered; the entry is still there.
C23_Witness ==
    /\ Live(Key(LocalPhone))
    /\ resp.op \in DispatchOps
    /\ resp.phone = LocalPhone
    /\ resp.out = "sent"
    /\ resp.emits = 1
    /\ DOMAIN clients = {"c1"}
    /\ last.to = {"c1"}
    /\ last.pass = Message

\* The entry of key k was destroyed, by its expiry or by a verification.
Destroyed(k) == ~Live(k) /\ life[k] \in {"expired", "verified"}

\* The condition C24 puts on every step.
C24_LifecycleRestarts_Step ==
    /\ \A r \in At("cmp_get") :
        StepOf(r) /\ NoFault(r) /\ Destroyed(Key(r.phone)) =>
          /\ Answered(r)
          /\ resp'.out = "expired"
          /\ store' = store
    /\ \A r \in At("otp_get") :
        StepOf(r) /\ NoFault(r) /\ Destroyed(Key(r.phone)) =>
          /\ ~Answered(r)
          /\ \E r2 \in At("lock")' : r2.phone = r.phone /\ r2.code # NoStr
    /\ \A r \in At("setex") :
        StepOf(r) /\ NoFault(r) =>
          /\ resp'.out = "success"
          /\ resp'.emits = 1
          /\ Live(Key(r.phone))'
          /\ store'[Key(r.phone)] = [code |-> r.code, exp |-> now + 1800]
    /\ now' # now =>
          \A k \in DOMAIN store : k \in DOMAIN store' <=> store[k].exp > now'

\* C24: once the entry of a phone is gone, by expiry (the clock reaching
\* the time it was written plus 1800 seconds) or by a verification, a
\* verification answers "expired" and an issue is not "already pending": it
\* generates a code, broadcasts once, stores the code for 1800 seconds from
\* now and answers success. (Redis and the random source working.)
C24_LifecycleRestarts == [][C24_LifecycleRestarts_Step]_vars

\* The entry of the phone expired; a verification with a code has answered
\* "expired", and a new issue has broadcast its code and is at its SETEX.
C24_Witness ==
    /\ life[Key(LocalPhone)] = "expired"
    /\ resp.op = "compare"
    /\ resp.arg \in Codes
    /\ resp.out = "expired"
    /\ \E r \in At("setex") : r.phone = LocalPhone /\ r.emits = 1 /\ r.seen = "miss"

\* The condition C25 puts on every step.
C25_PendingReadsOnly_Step ==
    /\ \A r \in At("otp_get") :
        Answered(r) /\ resp'.out = "pending" =>
          /\ Live(Key(r.phone))
          /\ store' = store
          /\ resp'.code = NoStr
          /\ resp'.calls = 1
          /\ resp'.emits = 0
          /\ last' = last
    /\ \A k \in DOMAIN store \cap DOMAIN store' :
        store'[k].exp # store[k].exp =>
          \E r \in At("setex") : StepOf(r) /\ Key(r.phone) = k /\ r.seen = "miss"
    /\ \A k \in DOMAIN store' : now' < store'[k].exp /\ store'[k].exp <= now' + 1800

\* C25: an issue answered "already pending" has made one GET and nothing
\* else: the code and its expiry are as they were, no code was generated,
\* nothing was broadcast. The expiry of an entry changes only by the SETEX
\* of an issue that read no entry, so an entry is gone 1800 seconds after
\* it was written however many issues were rejected meanwhile.
C25_PendingReadsOnly == [][C25_PendingReadsOnly_Step]_vars

\* Half the life of the entry has passed, an issue was rejected, and the
\* entry still ends 1800 seconds after time 0.
C25_Witness ==
    /\ now = 900
    /\ resp.op = "otp"
    /\ resp.out = "pending"
    /\ Live(Key(resp.phone))
    /\ store[Key(resp.phone)].exp = 1800

====
